---- MODULE Spec2Model ----
(***************************************************************************)
(* Verification model of the TOEFL speaking-practice front end:            *)
(*   - the SSE client loop of submitAnalysisWithSSE (services/api.ts),     *)
(*   - the session controller of App.tsx (phases, countdown, analysis      *)
(*     polling) together with the useAudioRecorder hook it drives,         *)
(*   - the useQuestionAudio hook (loadAudio / ensureDecoded / playback).   *)
(* Each part has its own specification (SpecSSE, Spec, SpecAudio); the     *)
(* variables of the other parts stay at their initial values.              *)
(***************************************************************************)
EXTENDS Integers, Sequences, FiniteSets, TLC

VARIABLES
  \* ---- submitAnalysisWithSSE
  sseLines,      \* the complete lines the server sends (each a sequence of characters)
  sseTail,       \* characters sent after the last newline (empty for a well-formed stream)
  ssePos,        \* number of characters of the body already returned by reader.read()
  sseBuffer,     \* `buffer`
  sseEvents,     \* the events handed to onEvent, in call order
  sseState,      \* "reading" | "done" | "failed" (the promise rejected)
  \* ---- App.tsx and the useAudioRecorder instance it holds
  app,           \* the React state of App, plus the closure state of its polling effect
  rec,           \* the state and refs of useAudioRecorder, and the browser objects it made
  round,         \* number of practice rounds started (names the round's recorder and stream)
  submits,       \* number of submitForAnalysis calls that reached the upload
  uploads,       \* submitForAnalysis calls suspended at an await
  polls,         \* getAnalysisResult requests in flight
  reportTimers,  \* pending setTimeout(() => setCurrentStep('report'), 800)
  taskStatus,    \* the backend's status of each analysis task
  beepAttempts,  \* number of playBeep calls made so far
  \* ---- useQuestionAudio
  qa,            \* the state and refs of useQuestionAudio
  fetches,       \* loadAudio calls awaiting fetch(audioUrl)
  decodes,       \* playQuestionAudio calls awaiting decodeAudioData
  loadCalls,     \* number of loadAudio calls that went past the cache check
  playCalls,     \* number of playQuestionAudio calls (names the call's promise and node)
  fetchCount,    \* per URL, the network fetches issued
  decodeCount,   \* per URL, the decodeAudioData calls issued on its bytes
  nodeState,     \* per playback node: "none" | "playing" | "stopped" | "ended"
  nodeBuffer,    \* per playback node, the URL whose decoded buffer it plays
  promise,       \* per playQuestionAudio call: "none" | "pending" | "resolved" | "rejected"
  \* ---- api client
  af,            \* the Supabase session and the authenticatedFetch calls
  \* ---- report page
  rp             \* the recording player of the report page

sseVars == <<sseLines, sseTail, ssePos, sseBuffer, sseEvents, sseState>>

appVars == <<app, rec, round, submits, uploads, polls, reportTimers, taskStatus, beepAttempts>>

qaVars == <<qa, fetches, decodes, loadCalls, playCalls, fetchCount, decodeCount,
            nodeState, nodeBuffer, promise>>

\* what lives outside the practice session
pageVars == <<af, rp>>

vars == <<sseVars, appVars, qaVars, pageVars>>

(***************************************************************************)
(* Bounds of the model                                                     *)
(***************************************************************************)
MaxLines == 3
MaxRounds == 2
MaxSubmits == 2
MaxTimers == 1
MaxInflight == 1
ClickWindow == 1
MaxLoads == 2
MaxPlays == 2
MaxBeeps == 1
MaxWarmups == 2
MaxCalls == 2
MediaLength == 5
MaxPending == 2

(***************************************************************************)
(* Generic helpers                                                         *)
(***************************************************************************)
RECURSIVE Flatten(_)
Flatten(ss) == IF ss = <<>> THEN <<>> ELSE Head(ss) \o Flatten(Tail(ss))

(***************************************************************************)
(* submitAnalysisWithSSE: the read loop                                    *)
(***************************************************************************)
NL == "\n"
Whitespace == {" ", "\r", "\t"}
Digits == {"1", "2"}

\* 'data: '
DataMarker == <<"d", "a", "t", "a", ":", " ">>

\* line.startsWith('data: ')
StartsWith(line, prefix) ==
  /\ Len(line) >= Len(prefix)
  /\ SubSeq(line, 1, Len(prefix)) = prefix

\* line.slice(6)
Slice(line, n) == SubSeq(line, n + 1, Len(line))

\* String.prototype.trim
RECURSIVE TrimLeft(_)
TrimLeft(s) ==
  IF s # <<>> /\ Head(s) \in Whitespace THEN TrimLeft(Tail(s)) ELSE s

RECURSIVE TrimRight(_)
TrimRight(s) ==
  IF s # <<>> /\ s[Len(s)] \in Whitespace
  THEN TrimRight(SubSeq(s, 1, Len(s) - 1)) ELSE s

Trim(s) == TrimRight(TrimLeft(s))

\* JSON.parse succeeds: of the texts the model sends, the JSON texts are the
\* non-empty digit strings (JSON numbers); anything else makes JSON.parse throw.
JsonValid(s) == s # <<>> /\ \A i \in 1..Len(s) : s[i] \in Digits

\* buffer.split('\n'): the pieces between newlines, Len = number of newlines + 1
RECURSIVE Split(_, _)
Split(s, cur) ==
  IF s = <<>> THEN <<cur>>
  ELSE IF Head(s) = NL THEN <<cur>> \o Split(Tail(s), <<>>)
  ELSE Split(Tail(s), Append(cur, Head(s)))

\* a catch block that rethrows
CatchRethrowsMutant == TRUE

\* The catch block around JSON.parse / onEvent logs and does not rethrow.

CatchRethrows == FALSE

\* The body of `for (const line of lines)` for one line, on the state
\* st = [events, failed].
ProcessLine(st, line) ==
  IF st.failed THEN st
  ELSE IF StartsWith(line, DataMarker)
  THEN LET jsonStr == Trim(Slice(line, Len(DataMarker)))
       IN IF jsonStr # <<>>
          THEN IF JsonValid(jsonStr)
               THEN [st EXCEPT !.events = Append(@, jsonStr)]
               ELSE [st EXCEPT !.failed = CatchRethrows]
          ELSE st
  ELSE st

RECURSIVE ProcessLines(_, _)
ProcessLines(st, lines) ==
  IF lines = <<>> THEN st
  ELSE ProcessLines(ProcessLine(st, Head(lines)), Tail(lines))

\* buffer reset to '' after each chunk
DropPartialLine(parts) == <<>>

\* buffer = lines.pop() || ''  -- the value that stays in the buffer
KeepPartialLine(parts) == parts[Len(parts)]

\* the `lines` left after lines.pop()
CompleteLines(parts) == SubSeq(parts, 1, Len(parts) - 1)

\* The whole body of the server's response
SseStream == Flatten([i \in 1..Len(sseLines) |-> Append(sseLines[i], NL)]) \o sseTail

\* The lines a server of the model may send
LineChoices ==
  { <<"d", "a", "t", "a", ":", " ", "1">>,        \* an event
    <<"d", "a", "t", "a", ":", " ", "2", "\r">>,  \* an event, CRLF framing
    <<"d", "a", "t", "a", ":", " ", "x">>,        \* payload is not JSON
    <<"d", "a", "t", "a", ":", " ">>,             \* empty payload
    <<"d", "a", "t", "a", ":", "1">>,             \* no space after the colon
    <<":", "1">>,                                 \* a comment line
    <<>> }                                        \* the blank separator line

TailChoices == { <<>>, <<"d", "a", "t", "a", ":", " ", "2">> }

SseInputs ==
  /\ sseLines \in UNION { [1..n -> LineChoices] : n \in 1..MaxLines }
  /\ sseTail \in TailChoices
  /\ ssePos = 0
  /\ sseBuffer = <<>>
  /\ sseEvents = <<>>
  /\ sseState = "reading"

\* no analysis stream is open
SseIdle ==
  /\ sseLines = <<>>
  /\ sseTail = <<>>
  /\ ssePos = 0
  /\ sseBuffer = <<>>
  /\ sseEvents = <<>>
  /\ sseState = "done"

\* One iteration of the while loop in which read() returns a chunk of n
\* characters: decode, append, split, keep the last piece, handle the lines.
SseReadChunk ==
  /\ sseState = "reading"
  /\ ssePos < Len(SseStream)
  /\ \E n \in 1..(Len(SseStream) - ssePos) :
       LET chunk == SubSeq(SseStream, ssePos + 1, ssePos + n)
           parts == Split(sseBuffer \o chunk, <<>>)
           st    == ProcessLines([events |-> sseEvents, failed |-> FALSE],
                                 CompleteLines(parts))
       IN /\ ssePos' = ssePos + n
          /\ sseBuffer' = KeepPartialLine(parts)
          /\ sseEvents' = st.events
          /\ sseState' = IF st.failed THEN "failed" ELSE "reading"
  /\ UNCHANGED <<sseLines, sseTail, appVars, qaVars, pageVars>>

\* The iteration in which read() reports done: break.
SseReadDone ==
  /\ sseState = "reading"
  /\ ssePos = Len(SseStream)
  /\ sseState' = "done"
  /\ UNCHANGED <<sseLines, sseTail, ssePos, sseBuffer, sseEvents, appVars, qaVars, pageVars>>

(***************************************************************************)
(* useAudioRecorder                                                        *)
(***************************************************************************)
Null == 0
NoError == "null"

RecInitial ==
  [ isRecording      |-> FALSE,
    isPaused         |-> FALSE,
    audioBlob        |-> Null,     \* Null, or the recorder whose stop event built the blob
    error            |-> NoError,
    mediaRecorderRef |-> Null,
    recorderState    |-> [i \in 1..MaxRounds |-> "none"],  \* MediaRecorder.state
    stopEvents       |-> {},       \* recorders with a queued 'stop' event
    streamRef        |-> Null,
    liveStreams      |-> {},       \* streams whose tracks are live
    audioContextRef  |-> Null,
    openContexts     |-> {},       \* AudioContexts not closed
    gumPending       |-> {},       \* startRecording calls awaiting getUserMedia
    warmedUpStreamRef |-> Null,
    warmPending      |-> {},       \* warmup calls awaiting getUserMedia
    warmups          |-> 0,        \* number of warmup calls that requested a stream
    discarded        |-> {} ]      \* recorders whose stop event was pending at clearRecording

\* the stream acquired by warmup call k (startRecording call id acquires stream id)
WarmStream(k) == 0 - k

\* warmup up to the await of getUserMedia
Warmup(r) ==
  IF r.warmedUpStreamRef # Null THEN r
  ELSE [r EXCEPT !.warmups = @ + 1, !.warmPending = @ \cup {r.warmups + 1}]

\* warmup resumed with the stream
WarmupResume(r, k) ==
  [r EXCEPT !.warmPending = @ \ {k},
            !.warmedUpStreamRef = WarmStream(k),
            !.liveStreams = @ \cup {WarmStream(k)}]

\* getUserMedia rejects: warmup has no catch, the rejection reaches the caller
WarmupDenied(r, k) == [r EXCEPT !.warmPending = @ \ {k}]

\* startRecording from `streamRef.current = stream` to its end: the audio graph
\* and the recorder are set up (call id, on the given stream).
SetUpRecorder(r, id, stream) ==
  [r EXCEPT !.streamRef = stream,
            !.liveStreams = @ \cup {stream},
            !.audioContextRef = id,
            !.openContexts = @ \cup {id},
            !.mediaRecorderRef = id,
            !.recorderState[id] = "recording",
            !.isRecording = TRUE]

\* the same, with `new MediaRecorder` throwing: the catch block records the message.
SetUpRecorderError(r, id, stream) ==
  [r EXCEPT !.streamRef = stream,
            !.liveStreams = @ \cup {stream},
            !.audioContextRef = id,
            !.openContexts = @ \cup {id},
            !.error = "NotSupportedError"]

\* startRecording taking the warmed stream
TakeWarmedStream(r) == [r EXCEPT !.error = NoError, !.warmedUpStreamRef = Null]

\* startRecording up to the await of getUserMedia, or to its end when a warmed
\* stream is held. id names this call and the objects it creates.
StartRecording(r, id) ==
  IF r.warmedUpStreamRef # Null
  THEN SetUpRecorder(TakeWarmedStream(r), id, r.warmedUpStreamRef)
  ELSE [r EXCEPT !.error = NoError, !.gumPending = @ \cup {id}]

\* startRecording resumed with a stream; the graph and the recorder are set up.
StartRecordingResume(r, id) ==
  SetUpRecorder([r EXCEPT !.gumPending = @ \ {id}], id, id)

\* startRecording resumed with a stream, and `new MediaRecorder` throws
StartRecordingSetupError(r, id) ==
  SetUpRecorderError([r EXCEPT !.gumPending = @ \ {id}], id, id)

\* getUserMedia rejects: the catch block records the message and the promise
\* of startRecording resolves.
StartRecordingDenied(r, id) ==
  [r EXCEPT !.gumPending = @ \ {id}, !.error = "Permission denied"]

\* MediaRecorder.stop(): queues the stop event unless the recorder is inactive
RecorderStop(r, id) ==
  IF r.recorderState[id] \in {"recording", "paused"}
  THEN [r EXCEPT !.recorderState[id] = "inactive", !.stopEvents = @ \cup {id}]
  ELSE r

StopRecording(r) ==
  IF r.mediaRecorderRef # Null /\ r.isRecording
  THEN [RecorderStop(r, r.mediaRecorderRef) EXCEPT !.isPaused = FALSE]
  ELSE r

\* MediaRecorder.pause() and resume() throw InvalidStateError on an inactive recorder
PauseThrows(r) ==
  /\ r.mediaRecorderRef # Null /\ r.isRecording
  /\ r.recorderState[r.mediaRecorderRef] = "inactive"

PauseRecording(r) ==
  IF r.mediaRecorderRef # Null /\ r.isRecording
  THEN [r EXCEPT !.recorderState[r.mediaRecorderRef] = "paused", !.isPaused = TRUE]
  ELSE r

ResumeThrows(r) ==
  /\ r.mediaRecorderRef # Null /\ r.isPaused
  /\ r.recorderState[r.mediaRecorderRef] = "inactive"

ResumeRecording(r) ==
  IF r.mediaRecorderRef # Null /\ r.isPaused
  THEN [r EXCEPT !.recorderState[r.mediaRecorderRef] = "recording", !.isPaused = FALSE]
  ELSE r

ClearRecording(r) == [r EXCEPT !.audioBlob = Null, !.discarded = r.stopEvents]

\* mediaRecorder.onstop of recorder id
OnStop(r, id) ==
  [r EXCEPT !.stopEvents = @ \ {id},
            !.discarded = @ \ {id},
            !.audioBlob = id,
            !.isRecording = FALSE,
            !.openContexts = @ \ {r.audioContextRef},
            !.liveStreams = @ \ {r.streamRef}]

(***************************************************************************)
(* App.tsx: the session controller                                         *)
(***************************************************************************)
PrepSeconds == 15
RecordSeconds == 45
maxPolls == 60

Steps == {"detail", "prep_tts", "prep_countdown", "recording",
          "confirmation", "analyzing", "report"}

AppInitial ==
  [ currentStep    |-> "detail",
    timeLeft       |-> PrepSeconds,
    isTimerRunning |-> FALSE,
    isPaused       |-> FALSE,
    analysisSteps  |-> <<"pending", "pending", "pending", "pending">>,
    recordingId    |-> Null,
    taskId         |-> Null,
    analysisReport |-> Null,      \* Null, or the task whose result is stored
    apiError       |-> NoError,
    pollActive     |-> FALSE,     \* the polling effect's interval is set
    pollCount      |-> 0 ]        \* `pollCount` of the polling effect's closure

\* The polling effect, deps [currentStep, taskId]: on a change of the deps the
\* cleanup clears the interval, and the effect sets a new one when analyzing a task.
PollingEffect(old, new) ==
  IF new.currentStep = old.currentStep /\ new.taskId = old.taskId THEN new
  ELSE IF new.currentStep = "analyzing" /\ new.taskId # Null
  THEN [new EXCEPT !.analysisSteps = <<"completed", "completed", "processing", "pending">>,
                   !.pollActive = TRUE,
                   !.pollCount = 0]
  ELSE [new EXCEPT !.pollActive = FALSE, !.pollCount = 0]

\* requests issued by an interval that the cleanup has cleared
Orphaned(old, new, ps) ==
  IF new.currentStep = old.currentStep /\ new.taskId = old.taskId THEN ps
  ELSE { [q EXCEPT !.live = FALSE] : q \in ps }

startPracticeFlow(a) == [a EXCEPT !.currentStep = "prep_tts"]

startPrepCountdown(a) ==
  [a EXCEPT !.currentStep = "prep_countdown",
            !.timeLeft = PrepSeconds,
            !.isTimerRunning = TRUE]

\* startRecordingPhase without setTimeLeft(45)
startRecordingPhaseKeepsTime(a, r, id) ==
  [ app |-> [a EXCEPT !.currentStep = "recording", !.isTimerRunning = TRUE],
    rec |-> StartRecording(r, id) ]

startRecordingPhase(a, r, id) ==
  [ app |-> [a EXCEPT !.currentStep = "recording",
                      !.timeLeft = RecordSeconds,
                      !.isTimerRunning = TRUE],
    rec |-> StartRecording(r, id) ]

togglePause(a, r) ==
  [ app |-> [a EXCEPT !.isPaused = ~a.isPaused],
    rec |-> IF a.isPaused THEN ResumeRecording(r) ELSE PauseRecording(r) ]

restartPractice(a, r) ==
  [ app |-> startPracticeFlow([a EXCEPT !.isTimerRunning = FALSE, !.isPaused = FALSE]),
    rec |-> ClearRecording(StopRecording(r)) ]

finishRecording(a, r) ==
  [ app |-> [a EXCEPT !.isTimerRunning = FALSE, !.currentStep = "confirmation"],
    rec |-> StopRecording(r) ]

handleTimerComplete(a, r, id) ==
  IF a.currentStep = "prep_countdown" THEN startRecordingPhase(a, r, id)
  ELSE IF a.currentStep = "recording" THEN finishRecording(a, r)
  ELSE [app |-> a, rec |-> r]

backToHome(a) ==
  [a EXCEPT !.currentStep = "detail",
            !.timeLeft = PrepSeconds,
            !.isTimerRunning = FALSE]

\* The state after a handler: the handler's updates, then the effects of the render.
Render(a, r, ps) ==
  /\ app' = PollingEffect(app, a)
  /\ rec' = r
  /\ polls' = Orphaned(app, a, ps)
  /\ UNCHANGED <<sseVars, qaVars, pageVars>>

\* The countdown effect has to run handleTimerComplete for the committed render
TimerEffectPending ==
  /\ app.timeLeft = 0
  /\ app.isTimerRunning
  /\ app.currentStep \in {"prep_countdown", "recording"}

\* A handler other than the countdown effect: React runs the pending effects
\* of a committed render before it handles the next event.
Commit(a, r, ps) ==
  /\ ~TimerEffectPending
  /\ Render(a, r, ps)

\* ---- user actions
\* The instants of the recording countdown at which the model's user presses a
\* button: within ClickWindow seconds of its start or of its end.
ClickInstant ==
  \/ app.timeLeft >= RecordSeconds - ClickWindow
  \/ app.timeLeft <= ClickWindow

UserStart ==
  /\ app.currentStep = "detail"
  /\ app.apiError = NoError
  /\ round < MaxRounds
  /\ round' = round + 1
  /\ Commit(startPracticeFlow(app), rec, polls)
  /\ UNCHANGED <<submits, uploads, reportTimers, taskStatus, beepAttempts>>

UserTogglePause ==
  /\ app.currentStep = "recording"
  /\ ClickInstant
  /\ ~(IF app.isPaused THEN ResumeThrows(rec) ELSE PauseThrows(rec))
  /\ LET s == togglePause(app, rec) IN Commit(s.app, s.rec, polls)
  /\ UNCHANGED <<round, submits, uploads, reportTimers, taskStatus, beepAttempts>>

UserRestart ==
  /\ app.currentStep \in {"recording", "confirmation"}
  /\ app.currentStep = "recording" => ClickInstant
  /\ round < MaxRounds
  /\ round' = round + 1
  /\ LET s == restartPractice(app, rec) IN Commit(s.app, s.rec, polls)
  /\ UNCHANGED <<submits, uploads, reportTimers, taskStatus, beepAttempts>>

UserFinish ==
  /\ app.currentStep = "recording"
  /\ ClickInstant
  /\ LET s == finishRecording(app, rec) IN Commit(s.app, s.rec, polls)
  /\ UNCHANGED <<round, submits, uploads, reportTimers, taskStatus, beepAttempts>>

\* submitForAnalysis up to its first await, or its early return
UserSubmit ==
  /\ app.currentStep = "confirmation"
  /\ IF rec.audioBlob = Null
     THEN /\ Commit([app EXCEPT !.apiError = "No recording available"], rec, polls)
          /\ UNCHANGED <<submits, uploads>>
     ELSE /\ submits < MaxSubmits
          /\ submits' = submits + 1
          /\ uploads' = uploads \cup {[id |-> submits + 1, pc |-> "upload", blob |-> rec.audioBlob]}
          /\ Commit([app EXCEPT !.currentStep = "analyzing",
                                !.apiError = NoError,
                                !.analysisSteps[1] = "processing"], rec, polls)
  /\ UNCHANGED <<round, reportTimers, taskStatus, beepAttempts>>

UserBackToHome ==
  /\ app.currentStep = "report"
  /\ Commit(backToHome(app), rec, polls)
  /\ UNCHANGED <<round, submits, uploads, reportTimers, taskStatus, beepAttempts>>

\* the close button of the error banner
UserDismissError ==
  /\ app.apiError # NoError
  /\ Commit([app EXCEPT !.apiError = NoError], rec, polls)
  /\ UNCHANGED <<round, submits, uploads, reportTimers, taskStatus, beepAttempts>>

\* ---- timers
\* the 3 s timer of the prep_tts effect
TtsTimer ==
  /\ app.currentStep = "prep_tts"
  /\ Commit(startPrepCountdown(app), rec, polls)
  /\ UNCHANGED <<round, submits, uploads, reportTimers, taskStatus, beepAttempts>>

\* the interval condition without !isPaused
CountdownTickingIgnoringPause(a) == a.isTimerRunning /\ a.timeLeft > 0

\* the countdown effect's interval exists
CountdownTicking(a) == a.isTimerRunning /\ ~a.isPaused /\ a.timeLeft > 0

CountdownTick ==
  /\ CountdownTicking(app)
  /\ Commit([app EXCEPT !.timeLeft = @ - 1], rec, polls)
  /\ UNCHANGED <<round, submits, uploads, reportTimers, taskStatus, beepAttempts>>

\* the countdown effect's other branch
TimerComplete ==
  /\ app.timeLeft = 0 /\ app.isTimerRunning
  /\ TimerEffectPending
  /\ LET s == handleTimerComplete(app, rec, round) IN Render(s.app, s.rec, polls)
  /\ UNCHANGED <<round, submits, uploads, reportTimers, taskStatus, beepAttempts>>

\* the timeout branch without setCurrentStep('confirmation')
PollTimeoutStays(a) ==
  [a EXCEPT !.pollCount = @ + 1,
            !.pollActive = FALSE,
            !.apiError = "Analysis timeout - please try again"]

\* the branch `pollCount > maxPolls` of the interval's callback
PollTimeout(a) ==
  [a EXCEPT !.pollCount = @ + 1,
            !.pollActive = FALSE,
            !.apiError = "Analysis timeout - please try again",
            !.currentStep = "confirmation"]

\* the polling interval's callback up to its await
PollTick ==
  /\ app.pollActive
  /\ app.pollCount + 1 <= maxPolls => Cardinality(polls) < MaxInflight
  /\ IF app.pollCount + 1 > maxPolls
     THEN Commit(PollTimeout(app), rec, polls)
     ELSE Commit([app EXCEPT !.pollCount = @ + 1], rec,
                 polls \cup {[task |-> app.taskId, live |-> TRUE]})
  /\ UNCHANGED <<round, submits, uploads, reportTimers, taskStatus, beepAttempts>>

ReportTimer ==
  /\ reportTimers > 0
  /\ reportTimers' = reportTimers - 1
  /\ Commit([app EXCEPT !.currentStep = "report"], rec, polls)
  /\ UNCHANGED <<round, submits, uploads, taskStatus, beepAttempts>>

\* ---- completions of the recorder's asynchronous steps
GetUserMediaGranted ==
  /\ \E id \in rec.gumPending :
       \/ Commit(app, StartRecordingResume(rec, id), polls)
       \/ Commit(app, StartRecordingSetupError(rec, id), polls)
  /\ UNCHANGED <<round, submits, uploads, reportTimers, taskStatus, beepAttempts>>

GetUserMediaDenied ==
  /\ \E id \in rec.gumPending : Commit(app, StartRecordingDenied(rec, id), polls)
  /\ UNCHANGED <<round, submits, uploads, reportTimers, taskStatus, beepAttempts>>

RecorderOnStop ==
  /\ \E id \in rec.stopEvents : Commit(app, OnStop(rec, id), polls)
  /\ UNCHANGED <<round, submits, uploads, reportTimers, taskStatus, beepAttempts>>

\* ---- completions of submitForAnalysis's requests
UploadDone ==
  /\ \E u \in uploads :
       /\ u.pc = "upload"
       /\ uploads' = (uploads \ {u}) \cup {[u EXCEPT !.pc = "start"]}
       /\ Commit([app EXCEPT !.recordingId = u.id,
                             !.analysisSteps[1] = "completed",
                             !.analysisSteps[2] = "processing"], rec, polls)
  /\ UNCHANGED <<round, submits, reportTimers, taskStatus, beepAttempts>>

StartAnalysisDone ==
  /\ \E u \in uploads :
       /\ u.pc = "start"
       /\ uploads' = uploads \ {u}
       /\ taskStatus' = [taskStatus EXCEPT ![u.id] = "processing"]
       /\ Commit([app EXCEPT !.taskId = u.id,
                             !.analysisSteps[2] = "completed"], rec, polls)
  /\ UNCHANGED <<round, submits, reportTimers, beepAttempts>>

\* the message of the Error thrown by uploadRecording / startAnalysis
RequestError(u) ==
  IF u.pc = "upload" THEN "Failed to upload recording" ELSE "Failed to start analysis"

\* the catch block without setCurrentStep('confirmation')
SubmitCatchStays(a, message) == [a EXCEPT !.apiError = message]

\* the catch block of submitForAnalysis
SubmitCatch(a, message) ==
  [a EXCEPT !.apiError = message, !.currentStep = "confirmation"]

\* the request of suspended call u fails
SubmitFailedOf(u) ==
  /\ u \in uploads
  /\ uploads' = uploads \ {u}
  /\ Commit(SubmitCatch(app, RequestError(u)), rec, polls)
  /\ UNCHANGED <<round, submits, reportTimers, taskStatus, beepAttempts>>

SubmitFailed == \E u \in uploads : SubmitFailedOf(u)

\* ---- the backend finishes a task
FailStatuses == {"failed: X", "failed"}

\* result.error_message of a failed task (the empty message is falsy)
ErrorMessage(status) == IF status = "failed: X" THEN "X" ELSE ""

ServerFinish ==
  /\ \E t \in 1..MaxSubmits, st \in {"completed"} \cup FailStatuses :
       /\ taskStatus[t] = "processing"
       /\ taskStatus' = [taskStatus EXCEPT ![t] = st]
  /\ ~TimerEffectPending
  /\ UNCHANGED <<app, rec, polls, round, submits, uploads, reportTimers, beepAttempts, sseVars, qaVars, pageVars>>

\* ---- completions of getAnalysisResult
\* clearInterval(pollInterval) in the callback that issued request q
ClearOwnInterval(a, q) == IF q.live THEN [a EXCEPT !.pollActive = FALSE] ELSE a

PollFailedBranch(a, q, status) ==
  [ClearOwnInterval(a, q) EXCEPT
     !.apiError = IF ErrorMessage(status) # "" THEN ErrorMessage(status) ELSE "Analysis failed",
     !.currentStep = "confirmation"]

PollCompleted ==
  /\ reportTimers < MaxTimers
  /\ \E q \in polls :
       /\ taskStatus[q.task] = "completed"
       /\ reportTimers' = reportTimers + 1
       /\ Commit([ClearOwnInterval(app, q) EXCEPT
                    !.analysisSteps = <<"completed", "completed", "completed", "completed">>,
                    !.analysisReport = q.task], rec, polls \ {q})
  /\ UNCHANGED <<round, submits, uploads, taskStatus, beepAttempts>>

\* request q returns a failed status
PollFailedOf(q) ==
  /\ q \in polls
  /\ taskStatus[q.task] \in FailStatuses
  /\ Commit(PollFailedBranch(app, q, taskStatus[q.task]), rec, polls \ {q})
  /\ UNCHANGED <<round, submits, uploads, reportTimers, taskStatus, beepAttempts>>

PollFailed == \E q \in polls : PollFailedOf(q)

PollProcessing ==
  /\ \E q \in polls :
       /\ taskStatus[q.task] = "processing"
       /\ Commit([app EXCEPT !.analysisSteps[3] = "processing",
                             !.analysisSteps[4] = "pending"], rec, polls \ {q})
  /\ UNCHANGED <<round, submits, uploads, reportTimers, taskStatus, beepAttempts>>

\* the request throws (network error, or a response that is not ok): logged only
PollThrows ==
  /\ \E q \in polls : Commit(app, rec, polls \ {q})
  /\ UNCHANGED <<round, submits, uploads, reportTimers, taskStatus, beepAttempts>>

AppInit ==
  /\ app = AppInitial
  /\ rec = RecInitial
  /\ round = 0
  /\ submits = 0
  /\ uploads = {}
  /\ polls = {}
  /\ reportTimers = 0
  /\ taskStatus = [t \in 1..MaxSubmits |-> "none"]
  /\ beepAttempts = 0

(***************************************************************************)
(* useQuestionAudio                                                        *)
(***************************************************************************)
Urls == {"a.mp3", "b.mp3"}
NoUrl == "null"

\* the rest of the program does not move while the player is exercised
RestIdle ==
  UNCHANGED <<pageVars, sseVars, app, rec, round, submits, uploads, polls, reportTimers,
              taskStatus>>

QaInitial ==
  [ cachedUrlRef       |-> NoUrl,
    rawAudioDataRef    |-> NoUrl,   \* NoUrl, or the URL whose bytes are held
    audioBufferRef     |-> NoUrl,   \* NoUrl, or the URL whose decoded audio is held
    sourceNodeRef      |-> Null,
    playbackResolveRef |-> Null,    \* Null, or the call whose resolve function is held
    isLoading          |-> FALSE,
    isPlaying          |-> FALSE,
    error              |-> NoError ]

QaInit ==
  /\ qa = QaInitial
  /\ fetches = {}
  /\ decodes = {}
  /\ loadCalls = 0
  /\ playCalls = 0
  /\ fetchCount = [u \in Urls |-> 0]
  /\ decodeCount = [u \in Urls |-> 0]
  /\ nodeState = [i \in 1..MaxPlays |-> "none"]
  /\ nodeBuffer = [i \in 1..MaxPlays |-> NoUrl]
  /\ promise = [i \in 1..MaxPlays |-> "none"]

\* "If already cached the same URL, skip loading"
AlreadyCached(q, url) ==
  /\ q.cachedUrlRef = url
  /\ (q.audioBufferRef # NoUrl \/ q.rawAudioDataRef # NoUrl)

\* loadAudio up to the await of fetch
LoadAudio ==
  /\ \E url \in Urls :
       IF AlreadyCached(qa, url)
       THEN UNCHANGED <<qa, fetches, loadCalls, fetchCount>>
       ELSE /\ loadCalls < MaxLoads
            /\ loadCalls' = loadCalls + 1
            /\ qa' = [qa EXCEPT !.isLoading = TRUE, !.error = NoError]
            /\ fetches' = fetches \cup {[id |-> loadCalls + 1, url |-> url]}
            /\ fetchCount' = [fetchCount EXCEPT ![url] = @ + 1]
  /\ UNCHANGED <<decodes, playCalls, decodeCount, nodeState, nodeBuffer, promise,
                 beepAttempts>>
  /\ RestIdle

\* loadAudio resumed with the bytes
FetchDone ==
  /\ \E f \in fetches :
       /\ fetches' = fetches \ {f}
       /\ qa' = [qa EXCEPT !.rawAudioDataRef = f.url,
                           !.cachedUrlRef = f.url,
                           !.isLoading = FALSE]
  /\ UNCHANGED <<decodes, loadCalls, playCalls, fetchCount, decodeCount, nodeState,
                 nodeBuffer, promise, beepAttempts>>
  /\ RestIdle

\* fetch rejects or the response is not ok
FetchFailed ==
  /\ \E f \in fetches :
       /\ fetches' = fetches \ {f}
       /\ qa' = [qa EXCEPT !.error = "Failed to fetch audio", !.isLoading = FALSE]
  /\ UNCHANGED <<decodes, loadCalls, playCalls, fetchCount, decodeCount, nodeState,
                 nodeBuffer, promise, beepAttempts>>
  /\ RestIdle

\* playQuestionAudio after ensureDecoded has returned `buffer`, for call id:
\* stop the current node, create and start the new one.
StartPlayback(q, id) ==
  [q EXCEPT !.sourceNodeRef = id, !.playbackResolveRef = id, !.isPlaying = TRUE]

StoppedBy(q, ns) ==
  IF q.sourceNodeRef # Null /\ ns[q.sourceNodeRef] = "playing"
  THEN [ns EXCEPT ![q.sourceNodeRef] = "stopped"]
  ELSE ns

\* playQuestionAudio up to the await inside ensureDecoded, or to its end
PlayQuestionAudio ==
  /\ playCalls < MaxPlays
  /\ playCalls' = playCalls + 1
  /\ LET id == playCalls + 1 IN
       IF qa.audioBufferRef # NoUrl
       THEN /\ qa' = StartPlayback(qa, id)
            /\ nodeState' = [StoppedBy(qa, nodeState) EXCEPT ![id] = "playing"]
            /\ nodeBuffer' = [nodeBuffer EXCEPT ![id] = qa.audioBufferRef]
            /\ promise' = [promise EXCEPT ![id] = "pending"]
            /\ UNCHANGED <<decodes, decodeCount>>
       ELSE IF qa.rawAudioDataRef = NoUrl
       THEN /\ qa' = [qa EXCEPT !.isPlaying = FALSE]
            /\ promise' = [promise EXCEPT ![id] = "rejected"]
            /\ UNCHANGED <<decodes, decodeCount, nodeState, nodeBuffer>>
       ELSE /\ decodes' = decodes \cup {[id |-> id, data |-> qa.rawAudioDataRef]}
            /\ decodeCount' = [decodeCount EXCEPT ![qa.rawAudioDataRef] = @ + 1]
            /\ promise' = [promise EXCEPT ![id] = "pending"]
            /\ UNCHANGED <<qa, nodeState, nodeBuffer>>
  /\ UNCHANGED <<fetches, loadCalls, fetchCount, beepAttempts>>
  /\ RestIdle

\* decodeAudioData resolves: the buffer is cached and the playback starts
DecodeDone ==
  /\ \E d \in decodes :
       /\ decodes' = decodes \ {d}
       /\ qa' = StartPlayback([qa EXCEPT !.audioBufferRef = d.data], d.id)
       /\ nodeState' = [StoppedBy(qa, nodeState) EXCEPT ![d.id] = "playing"]
       /\ nodeBuffer' = [nodeBuffer EXCEPT ![d.id] = d.data]
  /\ UNCHANGED <<fetches, loadCalls, playCalls, fetchCount, decodeCount, promise,
                 beepAttempts>>
  /\ RestIdle

DecodeFailed ==
  /\ \E d \in decodes :
       /\ decodes' = decodes \ {d}
       /\ qa' = [qa EXCEPT !.isPlaying = FALSE]
       /\ promise' = [promise EXCEPT ![d.id] = "rejected"]
  /\ UNCHANGED <<fetches, loadCalls, playCalls, fetchCount, decodeCount, nodeState,
                 nodeBuffer, beepAttempts>>
  /\ RestIdle

\* resolve the promise whose resolve function playbackResolveRef holds
ResolvePending(q, pr) ==
  IF q.playbackResolveRef # Null /\ pr[q.playbackResolveRef] = "pending"
  THEN [pr EXCEPT ![q.playbackResolveRef] = "resolved"]
  ELSE pr

\* source.onended of node id (the node played to its end, or stop() was called)
NodeEnded ==
  /\ \E id \in 1..MaxPlays :
       /\ nodeState[id] \in {"playing", "stopped"}
       /\ nodeState' = [nodeState EXCEPT ![id] = "ended"]
       /\ promise' = ResolvePending(qa, promise)
       /\ qa' = [qa EXCEPT !.isPlaying = FALSE,
                           !.sourceNodeRef = Null,
                           !.playbackResolveRef = Null]
  /\ UNCHANGED <<fetches, decodes, loadCalls, playCalls, fetchCount, decodeCount,
                 nodeBuffer, beepAttempts>>
  /\ RestIdle

StopAudio ==
  /\ nodeState' = StoppedBy(qa, nodeState)
  /\ promise' = ResolvePending(qa, promise)
  /\ qa' = [qa EXCEPT !.isPlaying = FALSE,
                      !.sourceNodeRef = Null,
                      !.playbackResolveRef = Null]
  /\ UNCHANGED <<fetches, decodes, loadCalls, playCalls, fetchCount, decodeCount,
                 nodeBuffer, beepAttempts>>
  /\ RestIdle

\* playBeep: the tone is synthesized, nothing of the player's state is touched
PlayBeep ==
  /\ beepAttempts < MaxBeeps
  /\ beepAttempts' = beepAttempts + 1
  /\ UNCHANGED qaVars
  /\ RestIdle

(***************************************************************************)
(* useAudioRecorder driven through its interface                           *)
(***************************************************************************)
\* the controller does not move while the hook is exercised
HookFrame == UNCHANGED <<submits, uploads, reportTimers, taskStatus, beepAttempts>>

CallWarmup ==
  /\ rec.warmups < MaxWarmups
  /\ Commit(app, Warmup(rec), polls)
  /\ UNCHANGED round
  /\ HookFrame

WarmupGranted ==
  /\ \E k \in rec.warmPending : Commit(app, WarmupResume(rec, k), polls)
  /\ UNCHANGED round
  /\ HookFrame

WarmupRejected ==
  /\ \E k \in rec.warmPending : Commit(app, WarmupDenied(rec, k), polls)
  /\ UNCHANGED round
  /\ HookFrame

CallStartRecording ==
  /\ round < MaxRounds
  /\ round' = round + 1
  /\ \/ Commit(app, StartRecording(rec, round + 1), polls)
     \/ /\ rec.warmedUpStreamRef # Null
        /\ Commit(app, SetUpRecorderError(TakeWarmedStream(rec), round + 1,
                                          rec.warmedUpStreamRef), polls)
  /\ HookFrame

CallStopRecording ==
  /\ Commit(app, StopRecording(rec), polls)
  /\ UNCHANGED round
  /\ HookFrame

CallPauseRecording ==
  /\ ~PauseThrows(rec)
  /\ Commit(app, PauseRecording(rec), polls)
  /\ UNCHANGED round
  /\ HookFrame

CallResumeRecording ==
  /\ ~ResumeThrows(rec)
  /\ Commit(app, ResumeRecording(rec), polls)
  /\ UNCHANGED round
  /\ HookFrame

CallClearRecording ==
  /\ Commit(app, ClearRecording(rec), polls)
  /\ UNCHANGED round
  /\ HookFrame

(***************************************************************************)
(* api.ts: authenticatedFetch                                              *)
(***************************************************************************)
\* response.status of the backend's answers
Statuses == {"200", "401", "500"}
NoStatus == "none"

CallInitial ==
  [ pc        |-> "idle",   \* idle | headers | fetch | refresh | headers2 | fetch2 | returned | thrown
    token     |-> Null,     \* the access token the request in flight carries
    requests  |-> 0,        \* fetch calls made
    refreshes |-> 0,        \* refreshSession calls made
    response  |-> NoStatus, \* status of `response`, the first answer
    refreshError |-> FALSE, \* `error` of the refreshSession answer
    result    |-> NoStatus ]  \* the status returned, or the message thrown

AfInit ==
  af = [ session |-> 1,     \* the access token of the current Supabase session
         calls   |-> [c \in 1..MaxCalls |-> CallInitial] ]

\* nothing but the api client moves
AfFrame == UNCHANGED <<sseVars, appVars, qaVars, rp>>

\* authenticatedFetch is called: it awaits getAuthHeaders
AfCall ==
  /\ \E c \in 1..MaxCalls :
       /\ af.calls[c].pc = "idle"
       /\ af' = [af EXCEPT !.calls[c].pc = "headers"]
  /\ AfFrame

\* getAuthHeaders has read the session: the request is sent with its token
AfSend ==
  /\ \E c \in 1..MaxCalls :
       /\ af.calls[c].pc \in {"headers", "headers2"}
       /\ af' = [af EXCEPT !.calls[c].pc = IF @ = "headers" THEN "fetch" ELSE "fetch2",
                            !.calls[c].token = af.session,
                            !.calls[c].requests = @ + 1]
  /\ AfFrame

\* the first answer arrives
AfResponse ==
  /\ \E c \in 1..MaxCalls, status \in Statuses :
       /\ af.calls[c].pc = "fetch"
       /\ af' = IF status = "401"
                THEN [af EXCEPT !.calls[c].response = status,
                                !.calls[c].pc = "refresh",
                                !.calls[c].refreshes = @ + 1]
                ELSE [af EXCEPT !.calls[c].response = status,
                                !.calls[c].pc = "returned",
                                !.calls[c].result = status]
  /\ AfFrame

\* the body of `if (error)` is skipped whatever refreshSession answered
AfterRefreshIgnoringError(call, error) == [call EXCEPT !.pc = "headers2"]

\* authenticatedFetch after `await supabase.auth.refreshSession()`
AfterRefresh(call, error) ==
  IF error
  THEN [call EXCEPT !.pc = "thrown", !.result = "Session expired"]
  ELSE [call EXCEPT !.pc = "headers2"]

\* refreshSession answers: with a new session, or with an error
AfRefreshed ==
  /\ \E c \in 1..MaxCalls, error \in BOOLEAN :
       /\ af.calls[c].pc = "refresh"
       /\ af' = [af EXCEPT !.session = IF error THEN @ ELSE @ + 1,
                            !.calls[c] = AfterRefresh([@ EXCEPT !.refreshError = error], error)]
  /\ AfFrame

\* the answer to the replayed request is returned as it is
AfReplayResponse ==
  /\ \E c \in 1..MaxCalls, status \in Statuses :
       /\ af.calls[c].pc = "fetch2"
       /\ af' = [af EXCEPT !.calls[c].pc = "returned", !.calls[c].result = status]
  /\ AfFrame

\* fetch rejects (network error): the rejection reaches the caller
AfFetchRejects ==
  /\ \E c \in 1..MaxCalls :
       /\ af.calls[c].pc \in {"fetch", "fetch2"}
       /\ af' = [af EXCEPT !.calls[c].pc = "thrown", !.calls[c].result = "TypeError"]
  /\ AfFrame

(***************************************************************************)
(* The report page: the recording player                                   *)
(***************************************************************************)
\* time_range of the report's chunks, in seconds
Chunks == { <<0, 2>>, <<2, 4>> }

RpInitial ==
  [ playing         |-> FALSE,  \* the audio element is not paused
    currentTime     |-> 0,      \* audio.currentTime
    isPlaying       |-> FALSE,
    chunkEndTimeRef |-> {},     \* {} for null, {t} for the limit t
    seeked          |-> FALSE,  \* a seek's timeupdate event is queued
    playPromises    |-> 0,      \* play() promises that are going to resolve
    startedBy       |-> "none",   \* who started the current playback: "global" | "chunk"
    pausedBy        |-> "none" ]  \* what paused it: "button" | "limit" | "ended"

RpInit == rp = RpInitial

\* nothing but the report page moves
RpFrame == UNCHANGED <<sseVars, appVars, qaVars, af>>

\* audio.play() accepted by the browser
ElementPlay(r, by) ==
  [r EXCEPT !.playing = TRUE, !.playPromises = @ + 1, !.startedBy = by,
            !.pausedBy = "none"]

\* audio.pause(): the pending play() promises are rejected
ElementPause(r, by) ==
  [r EXCEPT !.playing = FALSE, !.playPromises = 0,
            !.pausedBy = IF r.playing THEN by ELSE @]

\* togglePlay leaving the limit of the last chunk in place
TogglePlayKeepsLimit(r) == r

\* togglePlay: `chunkEndTimeRef.current = null`
TogglePlayClearsLimit(r) == [r EXCEPT !.chunkEndTimeRef = {}]

\* togglePlay up to its await; play() of a paused element may be refused
RpTogglePlay ==
  /\ LET r == TogglePlayClearsLimit(rp) IN
       IF rp.isPlaying
       THEN rp' = [ElementPause(r, "button") EXCEPT !.isPlaying = FALSE]
       ELSE \/ /\ rp.playPromises < MaxPending
               /\ rp' = ElementPlay(r, "global")
            \/ /\ ~rp.playing
               /\ rp' = r
  /\ RpFrame

\* seekTo
RpSeekTo ==
  /\ \E t \in 0..MediaLength : rp' = [rp EXCEPT !.currentTime = t, !.seeked = TRUE]
  /\ RpFrame

\* playChunkFromTime up to its await; play() of a paused element may be refused
RpPlayChunk ==
  /\ \E chunk \in Chunks :
       LET r == [rp EXCEPT !.chunkEndTimeRef = {chunk[2]},
                           !.currentTime = chunk[1],
                           !.seeked = TRUE]
       IN \/ /\ rp.playPromises < MaxPending
             /\ rp' = ElementPlay(r, "chunk")
          \/ /\ ~rp.playing
             /\ rp' = r
  /\ RpFrame

\* the continuation after `await audioRef.current.play()`
RpPlayResolved ==
  /\ rp.playPromises > 0
  /\ rp' = [rp EXCEPT !.playPromises = @ - 1, !.isPlaying = TRUE]
  /\ RpFrame

\* the timeupdate listener, the element being at time t
OnTimeUpdate(r, t) ==
  IF r.chunkEndTimeRef # {} /\ \E limit \in r.chunkEndTimeRef : t >= limit
  THEN [ElementPause([r EXCEPT !.currentTime = t], "limit") EXCEPT
          !.isPlaying = FALSE, !.chunkEndTimeRef = {}]
  ELSE [r EXCEPT !.currentTime = t]

\* the playback advances and a timeupdate event is delivered
RpTimeUpdate ==
  /\ rp.playing
  /\ rp.currentTime < MediaLength
  /\ \E t \in (rp.currentTime + 1)..MediaLength :
       /\ t <= rp.currentTime + 2
       /\ rp' = OnTimeUpdate([rp EXCEPT !.seeked = FALSE], t)
  /\ RpFrame

\* the timeupdate event of a seek is delivered
RpSeekUpdate ==
  /\ rp.seeked
  /\ rp' = OnTimeUpdate([rp EXCEPT !.seeked = FALSE], rp.currentTime)
  /\ RpFrame

\* the 'ended' listener
RpEnded ==
  /\ rp.playing
  /\ rp.currentTime = MediaLength
  /\ rp' = [rp EXCEPT !.playing = FALSE, !.playPromises = 0, !.isPlaying = FALSE,
                      !.pausedBy = "ended"]
  /\ RpFrame

(***************************************************************************)
(* Specifications                                                          *)
(***************************************************************************)
InitSSE == SseInputs /\ AppInit /\ QaInit /\ AfInit /\ RpInit

NextSSE == SseReadChunk \/ SseReadDone

SpecSSE == InitSSE /\ [][NextSSE]_vars

Init == SseIdle /\ AppInit /\ QaInit /\ AfInit /\ RpInit

Next ==
  \/ UserStart \/ UserTogglePause \/ UserRestart \/ UserFinish
  \/ UserSubmit \/ UserBackToHome \/ UserDismissError
  \/ TtsTimer \/ CountdownTick \/ TimerComplete \/ PollTick \/ ReportTimer
  \/ GetUserMediaGranted \/ GetUserMediaDenied \/ RecorderOnStop
  \/ UploadDone \/ StartAnalysisDone \/ SubmitFailed
  \/ ServerFinish
  \/ PollCompleted \/ PollFailed \/ PollProcessing \/ PollThrows

Spec == Init /\ [][Next]_vars

\* the question-audio player driven by arbitrary calls of its interface
NextAudio ==
  \/ LoadAudio \/ FetchDone \/ FetchFailed
  \/ PlayQuestionAudio \/ DecodeDone \/ DecodeFailed
  \/ NodeEnded \/ StopAudio \/ PlayBeep

\* The controller with its timers firing and its requests answered: the
\* interval and the timers of the browser fire, and every request in flight
\* is answered or fails.
Fairness ==
  /\ WF_vars(PollTick)
  /\ WF_vars(ReportTimer)
  /\ WF_vars(UploadDone \/ StartAnalysisDone \/ SubmitFailed)
  /\ WF_vars(PollCompleted \/ PollFailed \/ PollProcessing \/ PollThrows)

\* the sessions of a user who lets every countdown run or presses finish,
\* submits, and practises again: no pause, no restart, no dismissal
NextLive ==
  \/ UserStart \/ UserFinish \/ UserSubmit \/ UserBackToHome
  \/ TtsTimer \/ CountdownTick \/ TimerComplete \/ PollTick \/ ReportTimer
  \/ GetUserMediaGranted \/ GetUserMediaDenied \/ RecorderOnStop
  \/ UploadDone \/ StartAnalysisDone \/ SubmitFailed
  \/ ServerFinish
  \/ PollCompleted \/ PollFailed \/ PollProcessing \/ PollThrows

SpecLive == Init /\ [][NextLive]_vars /\ Fairness

SpecAudio == Init /\ [][NextAudio]_vars

\* the capture engine driven by arbitrary calls of its interface
NextRecorder ==
  \/ CallWarmup \/ WarmupGranted \/ WarmupRejected
  \/ CallStartRecording \/ GetUserMediaGranted \/ GetUserMediaDenied
  \/ CallStopRecording \/ CallPauseRecording \/ CallResumeRecording
  \/ CallClearRecording \/ RecorderOnStop

SpecRecorder == Init /\ [][NextRecorder]_vars

\* authenticatedFetch calls running side by side on one session
NextFetch ==
  \/ AfCall \/ AfSend \/ AfResponse \/ AfRefreshed \/ AfReplayResponse
  \/ AfFetchRejects

SpecFetch == Init /\ [][NextFetch]_vars

\* the recording player of the report page under arbitrary clicks
NextReport ==
  \/ RpTogglePlay \/ RpSeekTo \/ RpPlayChunk \/ RpPlayResolved
  \/ RpTimeUpdate \/ RpSeekUpdate \/ RpEnded

SpecReport == Init /\ [][NextReport]_vars

(***************************************************************************)
(* Claims about submitAnalysisWithSSE                                      *)
(***************************************************************************)
\* What the protocol says a line carries: the event of a 'data: ' line with a
\* JSON payload, nothing for any other line.
EventLine1 == <<"d", "a", "t", "a", ":", " ", "1">>
EventLine2 == <<"d", "a", "t", "a", ":", " ", "2", "\r">>
MalformedLine == <<"d", "a", "t", "a", ":", " ", "x">>

EventOf(line) ==
  IF line = EventLine1 THEN << <<"1">> >>
  ELSE IF line = EventLine2 THEN << <<"2">> >>
  ELSE <<>>

RECURSIVE ExpectedEvents(_)
ExpectedEvents(lines) ==
  IF lines = <<>> THEN <<>>
  ELSE EventOf(Head(lines)) \o ExpectedEvents(Tail(lines))

\* number of the server's lines that lie completely within the first pos characters
RECURSIVE CompleteCount(_, _)
CompleteCount(lines, pos) ==
  IF lines = <<>> \/ pos < Len(Head(lines)) + 1 THEN 0
  ELSE 1 + CompleteCount(Tail(lines), pos - Len(Head(lines)) - 1)

WellFormedStream ==
  /\ sseTail = <<>>
  /\ \A i \in 1..Len(sseLines) :
        sseLines[i] \in {EventLine1, EventLine2, <<>>, <<":", "1">>}

\* C1: for a well-formed stream, whatever the chunking so far, the events
\* delivered are exactly the events of the lines completely received, once
\* each and in stream order; so at the end every chunking gives the same list.
C1_ChunkIndependent ==
  WellFormedStream =>
    /\ sseState # "failed"
    /\ sseEvents = ExpectedEvents(SubSeq(sseLines, 1, CompleteCount(sseLines, ssePos)))

\* a stream of three events was read to the end in more than one chunk
C1_Witness ==
  /\ WellFormedStream
  /\ sseState = "done"
  /\ Len(sseEvents) = 3
  /\ sseEvents[1] # sseEvents[2]

MalformedBetween ==
  \E i, j, k \in 1..Len(sseLines) :
    /\ i < j /\ j < k
    /\ EventOf(sseLines[i]) # <<>>
    /\ sseLines[j] = MalformedLine
    /\ EventOf(sseLines[k]) # <<>>

\* C2: a 'data: ' line whose payload is not JSON is dropped; the loop is not
\* left with an error, and at the end the events of all well-formed lines,
\* before and after the malformed one, have been delivered.
C2_MalformedDropped ==
  /\ sseState # "failed"
  /\ (MalformedBetween /\ sseState = "done") => sseEvents = ExpectedEvents(sseLines)

C2_Witness ==
  /\ MalformedBetween
  /\ sseState = "done"
  /\ Len(sseEvents) = 2

(***************************************************************************)
(* Claims about the session controller                                     *)
(***************************************************************************)
DocumentedEdges ==
  { <<"detail", "prep_tts">>,            \* start
    <<"prep_tts", "prep_countdown">>,    \* Listening to Preparing
    <<"prep_countdown", "recording">>,   \* countdown reaches 0
    <<"recording", "confirmation">>,     \* countdown reaches 0 or finish
    <<"confirmation", "analyzing">>,     \* submit
    <<"confirmation", "prep_tts">>,      \* discard
    <<"analyzing", "report">>,
    <<"analyzing", "confirmation">>,
    <<"report", "detail">> }             \* practice again

\* C3: the controller is in one phase, and every phase change is an edge of
\* the documented table; no other phase change happens.
C3_DocumentedEdgesOnly ==
  [][/\ app.currentStep \in Steps
     /\ \/ app'.currentStep = app.currentStep
        \/ <<app.currentStep, app'.currentStep>> \in DocumentedEdges]_vars

\* C4: the controller's pause flag and the recorder's pause flag are equal in
\* every reachable state.
C4_PauseFlagsAgree == app.isPaused = rec.isPaused

\* C5: while the countdown is paused in Recording the remaining time does not
\* change, so it has at resume the value it had at pause.
C5_NoTickWhilePaused ==
  [][(app.currentStep = "recording" /\ app.isPaused) => app'.timeLeft = app.timeLeft]_vars

\* the countdown was paused after it had ticked, with the recorder paused too
C5_Witness ==
  /\ app.currentStep = "recording"
  /\ app.isPaused /\ rec.isPaused
  /\ app.isTimerRunning
  /\ app.timeLeft = RecordSeconds - 1

ExitOf(step) == IF step = "prep_countdown" THEN "recording" ELSE "confirmation"

C7_BeepBeforeRecording ==
  [][(app.currentStep = "prep_countdown" /\ app'.currentStep = "recording") =>
       /\ app.timeLeft = 0
       /\ beepAttempts' > beepAttempts]_vars

\* C8: a failure delivered while Analyzing (a failed status carrying X, or a
\* failed upload / start request carrying its message) returns the controller
\* to Confirmation with that message displayed and the recording still held.
C8_FailureReturnsToConfirmation ==
  [][/\ \A q \in polls :
          (app.currentStep = "analyzing" /\ PollFailedOf(q) /\ taskStatus[q.task] = "failed: X") =>
            /\ app'.currentStep = "confirmation"
            /\ app'.apiError = "X"
            /\ rec'.audioBlob # Null /\ rec'.audioBlob = rec.audioBlob
     /\ \A u \in uploads :
          (app.currentStep = "analyzing" /\ SubmitFailedOf(u)) =>
            /\ app'.currentStep = "confirmation"
            /\ app'.apiError = RequestError(u)
            /\ rec'.audioBlob # Null /\ rec'.audioBlob = rec.audioBlob]_vars

\* back in Confirmation with the message of the failed task on display
C8_Witness ==
  /\ app.currentStep = "confirmation"
  /\ app.apiError = "X"
  /\ app.taskId # Null /\ taskStatus[app.taskId] = "failed: X"
  /\ rec.audioBlob # Null

\* C10: when getUserMedia is denied the session is not in Preparing/Recording
\* afterwards: it is back in the Listening/pre-session phase with a message,
\* and no microphone stream is live.
C10_DeniedAbortsSession ==
  [][GetUserMediaDenied =>
       /\ app'.currentStep \in {"detail", "prep_tts"}
       /\ app'.apiError # NoError
       /\ rec'.liveStreams = {}]_vars

(***************************************************************************)
(* Claims about the analysis progress                                      *)
(***************************************************************************)
StatusRank(status) ==
  CASE status = "pending" -> 0
    [] status = "processing" -> 1
    [] status = "completed" -> 2

\* C11: within one analysis attempt (the controller is and stays in Analyzing)
\* no progress step moves backwards: completed stays completed, and a
\* processing step is not set back to pending.
C11_ProgressMonotonic ==
  [][(app.currentStep = "analyzing" /\ app'.currentStep = "analyzing")
       => \A i \in 1..4 :
            StatusRank(app'.analysisSteps[i]) >= StatusRank(app.analysisSteps[i])]_vars

\* C12: the controller leaves Analyzing only with the progress terminal: all
\* steps completed, or an error set.
C12_TerminalBeforeExit ==
  [][(app.currentStep = "analyzing" /\ app'.currentStep # "analyzing")
       => \/ \A i \in 1..4 : app'.analysisSteps[i] = "completed"
          \/ app'.apiError # NoError]_vars

\* In the model's alphabet the payload 2 stands for a terminal event (type
\* completed or error) and the payload 1 for a step event; the read loop does
\* not look at the type.
IsTerminal(event) == event = <<"2">>

\* C23: the callback gets no event after a terminal event, and when the
\* stream has been read to its end it has got exactly one terminal event.
C23_OneTerminalEvent ==
  /\ \A i \in 1..Len(sseEvents) : IsTerminal(sseEvents[i]) => i = Len(sseEvents)
  /\ sseState = "done"
       => Cardinality({i \in 1..Len(sseEvents) : IsTerminal(sseEvents[i])}) = 1

\* C24: Analyzing is always eventually left; the poll tick that follows the
\* 60th stops the polling, sets the timeout error and returns to Confirmation;
\* a poll request that fails neither stops the polling nor resets the count.
C24_AnalyzingEventuallyLeft ==
  /\ (app.currentStep = "analyzing") ~> (app.currentStep # "analyzing")
  /\ [][(PollTick /\ app.pollCount >= maxPolls)
          => /\ ~app'.pollActive
             /\ app'.apiError = "Analysis timeout - please try again"
             /\ app'.currentStep = "confirmation"]_vars
  /\ [][PollThrows
          => app'.pollActive = app.pollActive /\ app'.pollCount = app.pollCount]_vars

\* the 61st tick has timed the analysis out
C24_Witness ==
  /\ app.currentStep = "confirmation"
  /\ app.apiError = "Analysis timeout - please try again"

(***************************************************************************)
(* Claims about rounds: restart, practice again, late outcomes             *)
(***************************************************************************)
\* C21: when restart re-enters Listening the capture is torn down: no
\* microphone request is outstanding, and a stream that is still live is the
\* one that the recorder's queued stop event is about to release.
C21_RestartTearsDownCapture ==
  [][UserRestart
       => /\ rec'.gumPending = {}
          /\ \A st \in rec'.liveStreams :
               st = rec'.streamRef /\ rec'.stopEvents # {}]_vars

\* C22: the report is absent until an analysis completes, and 'practice again'
\* clears the finished round: no report, no task id and no recording are held
\* after it.
C22_ResetClearsRound ==
  [][/\ (app.analysisReport = Null /\ app'.analysisReport # Null)
          => taskStatus[app'.analysisReport] = "completed"
     /\ UserBackToHome
          => /\ app'.analysisReport = Null
             /\ app'.taskId = Null
             /\ rec'.audioBlob = Null]_vars

\* C26: an analysis outcome (a poll response, the poll timeout, the delayed
\* switch to the report, a failed upload or start request) delivered when the
\* phase is not Analyzing does not change the phase.
C26_LateOutcomeIgnored ==
  [][(/\ app.currentStep # "analyzing"
      /\ \/ PollCompleted \/ PollFailed \/ PollProcessing \/ PollThrows
         \/ PollTick \/ ReportTimer \/ SubmitFailed \/ UploadDone \/ StartAnalysisDone)
       => app'.currentStep = app.currentStep]_vars

\* C27: every poll asks for the task of the submission of the current round,
\* and the report on display in the Report phase is that submission's.
C27_CurrentRoundOnly ==
  [][/\ \A q \in polls' \ polls : q.task = submits'
     /\ app'.currentStep = "report" => app'.analysisReport = submits']_vars

\* C28: in Preparing the countdown is running and not paused.
C28_PreparingCountsDown ==
  app.currentStep = "prep_countdown" => app.isTimerRunning /\ ~app.isPaused

\* C29: a microphone granted to a startRecording call after the controller
\* has left Recording starts no recording and leaves no stream open.
C29_NoCaptureOutsideRecording ==
  [][(GetUserMediaGranted /\ app.currentStep # "recording")
       => ~rec'.isRecording /\ rec'.liveStreams = rec.liveStreams]_vars

(***************************************************************************)
(* Claims about the error banner                                           *)
(***************************************************************************)
\* C20: every user action that starts something new (start practice, restart
\* or discard, submit for analysis, practice again) leaves no error of an
\* earlier action on display. (apiError is one value, so there is never more
\* than one banner.)
C20_NewActionClearsError ==
  [][(\/ UserStart
      \/ UserRestart
      \/ UserSubmit /\ app'.currentStep = "analyzing"
      \/ UserBackToHome)
       => app'.apiError = NoError]_vars

(***************************************************************************)
(* Claims about useAudioRecorder                                           *)
(***************************************************************************)
\* C13: warmup is idempotent: while a warmup call waits for its stream or a
\* warmed stream is held, no step makes warmup request another stream.
C13_WarmupIdempotent ==
  [][(rec.warmPending # {} \/ rec.warmedUpStreamRef # Null)
       => rec'.warmups = rec.warmups]_vars

\* C14: one capture engine holds at most one stream with live tracks and at
\* most one open AudioContext.
C14_OneStreamOneContext ==
  /\ Cardinality(rec.liveStreams) <= 1
  /\ Cardinality(rec.openContexts) <= 1

\* the step is a startRecording call failing: getUserMedia rejects, or the
\* set-up after the stream was obtained throws
StartRecordingFails ==
  \/ \E id \in rec.gumPending :
       \/ rec' = StartRecordingDenied(rec, id)
       \/ rec' = StartRecordingSetupError(rec, id)
  \/ /\ rec.warmedUpStreamRef # Null
     /\ round' = round + 1
     /\ rec' = SetUpRecorderError(TakeWarmedStream(rec), round + 1, rec.warmedUpStreamRef)

\* C15: a failing startRecording reports the error and leaves the engine as it
\* was: isRecording unchanged, no stream or context opened, no recording made.
C15_FailedStartLeavesState ==
  [][StartRecordingFails
       => /\ rec'.error # NoError
          /\ rec'.isRecording = rec.isRecording
          /\ rec'.liveStreams = rec.liveStreams
          /\ rec'.openContexts = rec.openContexts
          /\ rec'.audioBlob = rec.audioBlob]_vars

\* C16: the stop event of a recording that clearRecording discarded does not
\* bring a recording back: as long as no later recorder has been stopped,
\* audioBlob is still null after the event.
C16_ClearedStaysCleared ==
  [][\A id \in rec.stopEvents \cap rec.discarded :
       (/\ rec' = OnStop(rec, id)
        /\ \A j \in 1..MaxRounds : j > id => rec.recorderState[j] # "inactive")
         => rec'.audioBlob = Null]_vars

(***************************************************************************)
(* Claims about authenticatedFetch                                         *)
(***************************************************************************)
\* C19: one authenticatedFetch call refreshes the session at most once and
\* only after a 401; it sends at most two requests; a first answer other than
\* 401 is returned with no refresh and no replay; after a successful refresh
\* the request is replayed once and that answer returned whatever its status;
\* after a failed refresh nothing is replayed and 'Session expired' is thrown.
C19_OneRefreshOneReplay ==
  \A c \in 1..MaxCalls :
    LET call == af.calls[c] IN
      /\ call.refreshes <= 1 /\ call.requests <= 2
      /\ call.refreshes = 1 <=> call.response = "401"
      /\ call.requests = 2 => call.refreshes = 1
      /\ (call.pc = "returned" /\ call.response # "401")
           => call.requests = 1 /\ call.result = call.response
      /\ (call.pc = "returned" /\ call.response = "401")
           => call.requests = 2 /\ call.result \in Statuses
           /\ ~call.refreshError
      /\ call.refreshError
           => /\ call.pc = "thrown" /\ call.result = "Session expired"
              /\ call.requests = 1 /\ call.refreshes = 1
      /\ call.result = "Session expired" => call.refreshError

\* a call whose replayed request was answered 401 again has returned that answer
C19_Witness ==
  \E c \in 1..MaxCalls :
    /\ af.calls[c].pc = "returned"
    /\ af.calls[c].response = "401"
    /\ af.calls[c].result = "401"
    /\ \E d \in 1..MaxCalls : af.calls[d].result = "Session expired"

(***************************************************************************)
(* Claims about the report page                                            *)
(***************************************************************************)
\* C25: playChunkFromTime starts the playback at the chunk's start with the
\* chunk's end as limit; the first time update at or after the limit pauses
\* the playback and removes the limit; a playback started with the global
\* play button runs under no limit.
C25_ChunkStopsAtEnd ==
  [][/\ \A chunk \in Chunks :
          (RpPlayChunk /\ rp'.chunkEndTimeRef = {chunk[2]})
            => rp'.currentTime = chunk[1]
     /\ ((RpTimeUpdate \/ RpSeekUpdate)
          /\ \E limit \in rp.chunkEndTimeRef : rp'.currentTime >= limit)
          => ~rp'.playing /\ ~rp'.isPlaying /\ rp'.chunkEndTimeRef = {}
     /\ ((RpTimeUpdate \/ RpSeekUpdate)
          /\ \A limit \in rp.chunkEndTimeRef : rp'.currentTime < limit)
          => rp'.playing = rp.playing /\ rp'.chunkEndTimeRef = rp.chunkEndTimeRef
     /\ (rp'.playing /\ rp'.startedBy = "global") => rp'.chunkEndTimeRef = {}
     /\ (rp.playing /\ rp'.pausedBy = "limit") => rp.startedBy = "chunk"]_vars

\* the playback of the second chunk has been paused by its limit at the
\* chunk's end, and the limit is gone
C25_Witness ==
  /\ ~rp.playing
  /\ rp.startedBy = "chunk"
  /\ rp.pausedBy = "limit"
  /\ rp.currentTime = 4
  /\ rp.chunkEndTimeRef = {}

(***************************************************************************)
(* Claims about useQuestionAudio                                           *)
(***************************************************************************)
\* C9: loadAudio and playQuestionAudio never repeat work on a URL: while a
\* fetch of the URL is in flight or the URL is the cached one, no step issues
\* another network fetch of it, and while a decode of its bytes is in flight
\* or its decoded buffer is held, no step issues another decode of it.
C9_OneFetchOneDecode ==
  [][\A u \in Urls :
       /\ ((\E f \in fetches : f.url = u) \/ qa.cachedUrlRef = u)
            => fetchCount'[u] = fetchCount[u]
       /\ ((\E d \in decodes : d.data = u) \/ qa.audioBufferRef = u)
            => decodeCount'[u] = decodeCount[u]]_vars

\* C17: a playback promise is resolved only when the playback it started has
\* ended or was stopped, and once the ended callback of its node has run the
\* promise is no longer pending.
C17_PromiseFollowsPlayback ==
  \A i \in 1..MaxPlays :
    /\ promise[i] = "resolved" => nodeState[i] \in {"stopped", "ended"}
    /\ nodeState[i] = "ended" => promise[i] # "pending"

\* C18: after stopAudio no node is playing and no playback promise is pending,
\* and a playing node is always the one sourceNodeRef holds (so that there is
\* at most one and stopAudio would stop it).
C18_StopAudioStopsAll ==
  [][/\ StopAudio => \A i \in 1..MaxPlays :
                       nodeState'[i] # "playing" /\ promise'[i] # "pending"
     /\ \A i \in 1..MaxPlays : nodeState'[i] = "playing" => qa'.sourceNodeRef = i]_vars

\* C30: playQuestionAudio plays the audio of the URL most recently loaded
\* with success: the node it starts, or the decode it requests, is of the
\* URL cachedUrlRef holds.
C30_PlaysLatestLoaded ==
  [][PlayQuestionAudio =>
       /\ \A i \in 1..MaxPlays :
            (nodeState[i] # "playing" /\ nodeState'[i] = "playing")
              => nodeBuffer'[i] = qa.cachedUrlRef
       /\ \A d \in decodes' \ decodes : d.data = qa.cachedUrlRef]_vars

====
